---- MODULE Spec2Model ----
(***************************************************************************)
(* Model of battery-monitor.c: the record parser (is_valid_line,           *)
(* read_voltages), the renderer (print_left_panel, print_bottom_panel,     *)
(* print_battery_bars) and the read loop of main.                          *)
(*                                                                         *)
(* Text is modelled as a sequence of one-character strings.                *)
(***************************************************************************)
EXTENDS Integers, Sequences, FiniteSets, TLC

(***************************************************************************)
(* Bounds of the model.                                                    *)
(***************************************************************************)
\* longest raw record enumerated character by character
MaxLen == 5
\* most records the source file holds
MaxFileLen == 2
\* most read errors fgets reports in one run
MaxReadErrors == 1

(***************************************************************************)
(* Program constants.                                                      *)
(***************************************************************************)
OFFSET_LEFT == 10
OFFSET_BOTTOM == 3
BAR_WIDTH == 3
SPACE_BETWEEN_BARS == 3
VOLTS_MIN == 80
VOLTS_MAX == 150
\* int voltages[25]
VOLTAGES_LEN == 25
\* the end-of-readings sentinel written by read_voltages
SENTINEL == -1

NULL == "NULL"

VARIABLES
  \* configuration (the static variables of the file)
  SCREEN_HEIGHT, OFFSET_TOP, VOLTS_STEP, MAX_LINE_LENGTH, FRAME_INTERVAL,
  OUTPUT_FILE,
  \* main: control position, line[], voltages[], batteries_size, batteries[]
  pc, line, voltages, batteries_size, batteries,
  \* the source file (its lines), the stream dataFile and the mirror file
  source, dataFile, outFile,
  \* the curses window, the physical screen and the terminal mode
  window, display, terminal,
  \* what the process has written to stdout/stderr and its exit status
  stdio, status,
  \* history: the records fgets returned, the frames flushed (source line,
  \* record, readings shown), the steps taken for the current record, the
  \* read errors so far
  records, frames, steps, readErrors,
  \* the parser applied to one record on its own
  p_pc, p_raw, p_line, p_valid, p_result

Digits == <<"0", "1", "2", "3", "4", "5", "6", "7", "8", "9">>
DigitSet == {Digits[i] : i \in 1..10}
UpperSet == {"A", "B", "C", "D", "E", "F", "G", "H", "I", "J", "K", "L", "M",
             "N", "O", "P", "Q", "R", "S", "T", "U", "V", "W", "X", "Y", "Z"}
\* static const char* ALLOWED_CHARS
ALLOWED_CHARS == DigitSet \cup UpperSet \cup {","}
\* the characters is_valid_line strips: strchr(" \t\r\n", c)
WHITE_SPACE == {" ", "\t", "\r", "\n"}

(***************************************************************************)
(* is_valid_line                                                           *)
(***************************************************************************)
\* for (i = 0, j = 0; line[i] != '\0'; i++)
\*   if (NULL == strchr(" \t\r\n", line[i])) tmp[j++] = line[i];
StripLoop(str) == SelectSeq(str, LAMBDA c : c \notin WHITE_SPACE)

\* for (i = 0; tmp[i] != '\0'; i++)
\*   if (NULL == strchr(ALLOWED_CHARS, tmp[i])) { valid_line = false; break; }
AllowedLoop(tmp) == \A i \in 1..Len(tmp) : tmp[i] \in ALLOWED_CHARS

\* is_valid_line without strcpy(line, tmp): line[] keeps the raw text
is_valid_line_NoCopy(str) ==
  LET tmp == StripLoop(str)
      valid_line == (Len(tmp) # 0) /\ AllowedLoop(tmp)
  IN  [valid |-> valid_line, line |-> str]

\* is_valid_line without the test j == 0
is_valid_line_NoEmptyCheck(str) ==
  LET tmp == StripLoop(str)
      valid_line == AllowedLoop(tmp)
  IN  [valid |-> valid_line, line |-> IF valid_line THEN tmp ELSE str]

\* is_valid_line with strcpy(line, tmp) outside the test of valid_line
is_valid_line_AlwaysCopy(str) ==
  LET tmp == StripLoop(str)
      valid_line == (Len(tmp) # 0) /\ AllowedLoop(tmp)
  IN  [valid |-> valid_line, line |-> tmp]

\* is_valid_line that accepts only a line still carrying its line feed
is_valid_line_NeedsNewline(str) ==
  LET tmp == StripLoop(str)
      valid_line == (Len(tmp) # 0) /\ AllowedLoop(tmp)
                      /\ (\E i \in 1..Len(str) : str[i] = "\n")
  IN  [valid |-> valid_line, line |-> IF valid_line THEN tmp ELSE str]

\* the value returned and the contents of line[] on return
is_valid_line(str) ==
  LET tmp == StripLoop(str)
      valid_line == (Len(tmp) # 0) /\ AllowedLoop(tmp)
  IN  [valid |-> valid_line, line |-> IF valid_line THEN tmp ELSE str]

(***************************************************************************)
(* strtok(.., ","), atoi and read_voltages                                 *)
(***************************************************************************)
\* the first position at or after p that holds no delimiter (the end of
\* the text when there is none)
SkipDelims(s, p) ==
  IF p > Len(s) THEN p
  ELSE CHOOSE b \in p..(Len(s) + 1) :
         /\ b = Len(s) + 1 \/ s[b] # ","
         /\ \A i \in p..(b - 1) : s[i] = ","

\* the first position at or after p that holds a delimiter (the end of the
\* text when there is none)
TokenEnd(s, p) ==
  IF p > Len(s) THEN p
  ELSE CHOOSE e \in p..(Len(s) + 1) :
         /\ e = Len(s) + 1 \/ s[e] = ","
         /\ \A i \in p..(e - 1) : s[i] # ","

\* the next token of s at or after position p, and where the scan resumes;
\* null when only delimiters are left
strtok(s, p) ==
  LET b == SkipDelims(s, p)
      e == TokenEnd(s, b)
  IN  IF b > Len(s) THEN [null |-> TRUE, token |-> <<>>, next |-> b]
      ELSE [null |-> FALSE, token |-> SubSeq(s, b, e - 1), next |-> e + 1]

DigitVal(c) == (CHOOSE i \in 1..10 : Digits[i] = c) - 1

\* a 32-bit int kept as two 16-bit halves, so that n * 10 + d wraps as the
\* machine's arithmetic does
MulAdd32(n, d) ==
  LET lo == n.lo * 10 + d
      hi == n.hi * 10 + (lo \div 65536)
  IN  [hi |-> hi % 65536, lo |-> lo % 65536]

ToInt(n) ==
  IF n.hi >= 32768 THEN (n.hi - 65536) * 65536 + n.lo ELSE n.hi * 65536 + n.lo

RECURSIVE AtoiLoop(_, _, _)
AtoiLoop(tok, i, n) ==
  IF i > Len(tok) \/ tok[i] \notin DigitSet THEN n
  ELSE AtoiLoop(tok, i + 1, MulAdd32(n, DigitVal(tok[i])))

\* atoi on a token of a normalized record (no white space, no sign): the
\* value of the leading digits, 0 when there are none; a value that does
\* not fit an int comes back reduced modulo 2^32
atoi(tok) == ToInt(AtoiLoop(tok, 1, [hi |-> 0, lo |-> 0]))

\* one pass through the body of the do-while loop: tok is the token at
\* hand, zone is battery_data_zone, out is what has been stored through
\* voltages_offset so far
VoltagesStep(str, st) ==
  LET token == st.tok.token
      zone1 == IF token[1] = "H" THEN FALSE ELSE st.zone
      out1  == IF zone1 THEN Append(st.out, atoi(token)) ELSE st.out
      zone2 == IF token[1] = "B" THEN TRUE ELSE zone1
  IN  [tok |-> strtok(str, st.tok.next), zone |-> zone2, out |-> out1]

RECURSIVE VoltagesLoop(_, _)
\* do { ... } while (NULL != (token = strtok(NULL, ",")))
VoltagesLoop(str, st) ==
  IF st.tok.null THEN st.out ELSE VoltagesLoop(str, VoltagesStep(str, st))

\* read_voltages: segv when the first strtok returns NULL and *token is
\* read; otherwise the values stored through voltages_offset, the sentinel
\* last
read_voltages(str) ==
  LET first == strtok(str, 1)
  IN  IF first.null THEN [segv |-> TRUE, stored |-> <<>>]
      ELSE [segv |-> FALSE,
            stored |-> Append(VoltagesLoop(str, [tok |-> first, zone |-> FALSE,
                                                out |-> <<>>]),
                              SENTINEL)]

(***************************************************************************)
(* Geometry                                                                *)
(***************************************************************************)
\* an int argument passed for an unsigned int parameter: its value modulo
\* 2^32, as two 16-bit halves
ToUnsigned(n) == [hi |-> (n \div 65536) % 65536, lo |-> n % 65536]

\* unsigned int addition, subtraction, and multiplication by a factor below
\* 2^15, all modulo 2^32
Add32(a, b) ==
  LET lo == a.lo + b.lo
  IN  [hi |-> (a.hi + b.hi + (lo \div 65536)) % 65536, lo |-> lo % 65536]

Sub32(a, b) ==
  LET lo == a.lo - b.lo
  IN  [hi |-> (a.hi - b.hi + (lo \div 65536)) % 65536, lo |-> lo % 65536]

Mul32(a, m) ==
  LET lo == a.lo * m
  IN  [hi |-> (a.hi * m + (lo \div 65536)) % 65536, lo |-> lo % 65536]

\* bar_y that takes a negative argument for 0
bar_y_NonNegative(positions_up_from_bottom) ==
  SCREEN_HEIGHT - OFFSET_BOTTOM
    - (IF positions_up_from_bottom < 0 THEN 0 ELSE positions_up_from_bottom)

\* the operands are unsigned int, the difference is taken modulo 2^32 and
\* converted to the int returned
bar_y(positions_up_from_bottom) ==
  ToInt(Sub32(Sub32(ToUnsigned(SCREEN_HEIGHT), ToUnsigned(OFFSET_BOTTOM)),
              ToUnsigned(positions_up_from_bottom)))

bar_x(bar_position, bar_width) ==
  ToInt(Add32(Add32(ToUnsigned(1 + OFFSET_LEFT),
                    Mul32(ToUnsigned(bar_position),
                          SPACE_BETWEEN_BARS + BAR_WIDTH)),
              ToUnsigned(bar_width)))

(***************************************************************************)
(* The curses window: the cells written so far and the cursor.  A cell    *)
(* holds a character and the attributes that were on when it was written. *)
(* The window is not clipped to a terminal size; a negative coordinate    *)
(* makes the curses call fail without writing.                            *)
(***************************************************************************)
EmptyWindow == [cells |-> <<>>, cur |-> <<0, 0>>]

move(w, y, x) ==
  IF y < 0 \/ x < 0 THEN w ELSE [w EXCEPT !.cur = <<y, x>>]

mvaddch(w, y, x, ch, attrs) ==
  IF y < 0 \/ x < 0 THEN w
  ELSE [cells |-> (<<y, x>> :> [ch |-> ch, attrs |-> attrs]) @@ w.cells,
        cur |-> <<y, x + 1>>]

\* mvprintw of an already formatted text: the characters go to the cells
\* from (y, x) rightwards and the cursor is left behind the last one
mvprintw(w, y, x, text, attrs) ==
  IF y < 0 \/ x < 0 THEN w
  ELSE [cells |-> [c \in {<<y, x + n - 1>> : n \in 1..Len(text)} |->
                     [ch |-> text[c[2] - x + 1], attrs |-> attrs]] @@ w.cells,
        cur |-> <<y, x + Len(text)>>]

move_cursor_to_bottom_line(w) == move(w, bar_y(-2), 0)

RECURSIVE DecimalLoop(_, _)
DecimalLoop(n, acc) ==
  IF n < 10 THEN <<Digits[n + 1]>> \o acc
  ELSE DecimalLoop(n \div 10, <<Digits[(n % 10) + 1]>> \o acc)

\* printf's %d of a non-negative number
Decimal(n) == DecimalLoop(n, <<>>)

RECURSIVE PadLeft(_, _)
PadLeft(text, width) ==
  IF Len(text) >= width THEN text ELSE PadLeft(<<" ">> \o text, width)

\* "%5.2f" of (VOLTS_MIN + i * VOLTS_STEP) / 10.0; VOLTS_STEP is kept as the
\* exact quotient num / den, and 0 * (x / 0) is not a number
AxisLabel(i) ==
  IF VOLTS_STEP.den = 0 THEN PadLeft(<<"n", "a", "n">>, 5)
  ELSE LET hundredths == ((2 * (10 * VOLTS_MIN * VOLTS_STEP.den
                                 + 10 * i * VOLTS_STEP.num)) + VOLTS_STEP.den)
                           \div (2 * VOLTS_STEP.den)
           frac == hundredths % 100
       IN  PadLeft(Decimal(hundredths \div 100) \o <<".">>
                     \o <<Digits[(frac \div 10) + 1], Digits[(frac % 10) + 1]>>, 5)

RECURSIVE AxisLoop(_)
\* for (i = 0; i <= OFFSET_TOP - OFFSET_BOTTOM; i += 2)
\*   mvprintw(bar_y(i), OFFSET_LEFT - 6, "%5.2f", ...)
AxisLoop(st) ==
  IF st.i > OFFSET_TOP - OFFSET_BOTTOM THEN st.w
  ELSE AxisLoop([w |-> mvprintw(st.w, bar_y(st.i), OFFSET_LEFT - 6,
                                AxisLabel(st.i), {"CYAN"}),
                 i |-> st.i + 2])

print_left_panel(w) ==
  LET w1 == mvprintw(w, 0, OFFSET_LEFT - 6, <<"V", "o", "l", "t", "s", ":">>,
                     {"CYAN", "BOLD"})
      w2 == AxisLoop([w |-> w1, i |-> 0])
      w3 == mvprintw(w2, bar_y(-1), 1,
                     <<"B", "a", "t", "t", "e", "r", "y", ":">>, {"CYAN", "BOLD"})
  IN  move_cursor_to_bottom_line(w3)

RECURSIVE BottomLoop(_, _)
\* for (i = 0; i < battery_count; i++)
\*   mvprintw(bar_y(-1), bar_x(i, 0), "%2d", i + 1)
BottomLoop(st, battery_count) ==
  IF st.i >= battery_count THEN st.w
  ELSE BottomLoop([w |-> mvprintw(st.w, bar_y(-1), bar_x(st.i, 0),
                                  PadLeft(Decimal(st.i + 1), 2), {"CYAN"}),
                   i |-> st.i + 1],
                  battery_count)

\* print_bottom_panel with i <= battery_count as the loop's test
print_bottom_panel_OneMore(w, battery_count) ==
  BottomLoop([w |-> w, i |-> 0], battery_count + 1)

print_bottom_panel(w, battery_count) ==
  BottomLoop([w |-> w, i |-> 0], battery_count)

\* (int) (x + half) for x = n / d >= 0, d > 0: half is 0.5 when x > 0 and
\* -0.5 when x = 0, and the conversion truncates
round_to_int(n, d) ==
  IF n > 0 THEN (2 * n + d) \div (2 * d) ELSE 0

\* the clamp without if (batteries[i] > VOLTS_MAX)
Clamp_NoUpper(v) ==
  IF v >= 0 /\ v < VOLTS_MIN THEN VOLTS_MIN ELSE v

\* batteries[i] < VOLTS_MIN and batteries[i] > VOLTS_MAX compare an int with
\* an unsigned int: a negative int is converted to a value above every
\* voltage
Clamp(v) ==
  LET v1 == IF v >= 0 /\ v < VOLTS_MIN THEN VOLTS_MIN ELSE v
  IN  IF v1 < 0 \/ v1 > VOLTS_MAX THEN VOLTS_MAX ELSE v1

\* int current = 1 + round_to_int((batteries[i] - VOLTS_MIN) / VOLTS_STEP)
\* with VOLTS_STEP = num / den; dividing by an infinite step gives 0
Current(v) ==
  1 + (IF VOLTS_STEP.den = 0 THEN 0
       ELSE round_to_int((v - VOLTS_MIN) * VOLTS_STEP.den, VOLTS_STEP.num))

\* the loops of print_battery_bars without the second one, which writes the
\* blanks with no attribute on
LevelLoop_NoBlank(w, i, from, to, attrs) ==
  LET written == {<<j, k>> \in (from..to) \X (0..(BAR_WIDTH - 1)) :
                    bar_y(j) >= 0 /\ bar_x(i, k) >= 0 /\ attrs # {}}
      painted == [c \in {<<bar_y(jk[1]), bar_x(i, jk[2])>> : jk \in written} |->
                    [ch |-> " ", attrs |-> attrs]]
      last    == CHOOSE jk \in written :
                   \A o \in written :
                     o[1] < jk[1] \/ (o[1] = jk[1] /\ o[2] <= jk[2])
  IN  IF written = {} THEN w
      ELSE [cells |-> painted @@ w.cells,
            cur |-> <<bar_y(last[1]), bar_x(i, last[2]) + 1>>]

\* for (j = from; j <= to; j++) for (k = 0; k < BAR_WIDTH; k++)
\*   mvaddch(bar_y(j), bar_x(i, k), ' ')
\* every pair (j, k) addresses a cell of its own, so the cells are written
\* in one step; the cursor is left behind the last cell written
LevelLoop(w, i, from, to, attrs) ==
  LET written == {<<j, k>> \in (from..to) \X (0..(BAR_WIDTH - 1)) :
                    bar_y(j) >= 0 /\ bar_x(i, k) >= 0}
      painted == [c \in {<<bar_y(jk[1]), bar_x(i, jk[2])>> : jk \in written} |->
                    [ch |-> " ", attrs |-> attrs]]
      last    == CHOOSE jk \in written :
                   \A o \in written :
                     o[1] < jk[1] \/ (o[1] = jk[1] /\ o[2] <= jk[2])
  IN  IF written = {} THEN w
      ELSE [cells |-> painted @@ w.cells,
            cur |-> <<bar_y(last[1]), bar_x(i, last[2]) + 1>>]

RECURSIVE BarsLoop(_, _, _)
\* for (i = 0; i < battery_size; i++): clamp, compute current, fill the
\* levels below current, blank the levels from current to the top
BarsLoop(st, battery_size, bats) ==
  IF st.i >= battery_size THEN st.w
  ELSE LET current == Current(Clamp(bats[st.i + 1]))
           filled  == LevelLoop(st.w, st.i, 0, current - 1, {"REVERSE", "WHITE"})
           blanked == LevelLoop(filled, st.i, current, OFFSET_TOP - OFFSET_BOTTOM, {})
       IN  BarsLoop([w |-> blanked, i |-> st.i + 1], battery_size, bats)

\* the window after print_battery_bars
print_battery_bars(w, battery_size, bats) ==
  move_cursor_to_bottom_line(BarsLoop([w |-> w, i |-> 0], battery_size, bats))

\* batteries[] after print_battery_bars, which clamps it in place
ClampedBatteries(battery_size, bats) ==
  [i \in 1..Len(bats) |-> IF i <= battery_size THEN Clamp(bats[i]) ELSE bats[i]]

(***************************************************************************)
(* Inputs                                                                  *)
(***************************************************************************)
RECURSIVE Repeat(_, _)
Repeat(text, n) == IF n = 0 THEN <<>> ELSE text \o Repeat(text, n - 1)

\* "B, 90,140,H" with a carriage return before the line feed
R_zone == <<"B", ",", " ", "9", "0", ",", "1", "4", "0", ",", "H", "\r", "\n">>
\* "b,1": a lowercase letter
R_lower == <<"b", ",", "1", "\n">>
\* ",": accepted, and without any token
R_commas == <<",", "\n">>
\* "X,90": no zone start
R_nozone == <<"X", ",", "9", "0", "\n">>
\* "B" followed by n readings "100"
R_many(n) == <<"B">> \o Repeat(<<",", "1", "0", "0">>, n) \o <<"\n">>

\* the records the source file is made of
RecordSet == {R_zone, R_lower, R_commas, R_nozone}

\* source files of one record with as many readings as voltages[] holds
\* beside the sentinel, and with one more
LongFiles == {<<R_many(VOLTAGES_LEN - 1)>>, <<R_many(VOLTAGES_LEN)>>}

SeqsUpTo(S, n) == UNION {[1..k -> S] : k \in 0..n}

\* the values the options take (set_options stores atoi(optarg))
ScreenHeightOpts == {4, 6}
MaxLineLengthOpts == {512}
FrameIntervalOpts == {0, 20}
OutputFileOpts == {NULL, "mirror.txt"}

vars == <<SCREEN_HEIGHT, OFFSET_TOP, VOLTS_STEP, MAX_LINE_LENGTH, FRAME_INTERVAL,
          OUTPUT_FILE, pc, line, voltages, batteries_size, batteries,
          source, dataFile, outFile, window, display, terminal,
          stdio, status, records, frames, steps, readErrors,
          p_pc, p_raw, p_line, p_valid, p_result>>

configVars == <<SCREEN_HEIGHT, OFFSET_TOP, VOLTS_STEP, MAX_LINE_LENGTH,
                FRAME_INTERVAL, OUTPUT_FILE>>
parseVars == <<p_pc, p_raw, p_line, p_valid, p_result>>
screenVars == <<window, display, terminal>>
historyVars == <<records, frames, steps, readErrors>>

\* the values of the static variables and of main's locals at program start
InitProgram ==
  /\ SCREEN_HEIGHT = 24
  /\ OFFSET_TOP = 0
  /\ VOLTS_STEP = [num |-> 0, den |-> 1]
  /\ MAX_LINE_LENGTH = 512
  /\ FRAME_INTERVAL = 0
  /\ OUTPUT_FILE = NULL
  /\ line = <<>>
  /\ voltages = [i \in 1..VOLTAGES_LEN |-> 0]
  /\ batteries_size = 0
  /\ batteries = <<>>
  /\ dataFile = [open |-> FALSE, pos |-> 0, off |-> 0, eof |-> FALSE, err |-> FALSE]
  /\ outFile = [open |-> FALSE, content |-> <<>>]
  /\ window = EmptyWindow
  /\ display = <<>>
  /\ terminal = "shell"
  /\ stdio = <<>>
  /\ status = "running"
  /\ records = <<>>
  /\ frames = <<>>
  /\ steps = <<>>
  /\ readErrors = 0

Init ==
  /\ InitProgram
  /\ pc = "start"
  /\ source \in SeqsUpTo(RecordSet, MaxFileLen)
  /\ p_pc = "off"
  /\ p_raw = <<>>
  /\ p_line = <<>>
  /\ p_valid = FALSE
  /\ p_result = [segv |-> FALSE, stored |-> <<>>]

(***************************************************************************)
(* Display set-up and tear-down, exits                                     *)
(***************************************************************************)
\* what is written to stdout or stderr, and the terminal mode it meets
Say(msg, mode) == Append(stdio, [msg |-> msg, mode |-> mode])

\* perror(msg); exit(EXIT_FAILURE) without finish_screen(0) before them
FatalExit_NoTeardown(msg) ==
  /\ terminal' = terminal
  /\ stdio' = Say(msg, terminal)
  /\ status' = "EXIT_FAILURE"
  /\ pc' = "exited"

\* finish_screen(0); perror(msg); exit(EXIT_FAILURE)
FatalExit(msg) ==
  /\ terminal' = "shell"
  /\ stdio' = Say(msg, "shell")
  /\ status' = "EXIT_FAILURE"
  /\ pc' = "exited"

\* main, argc == 1
NoArguments ==
  /\ pc = "start"
  /\ stdio' = Say("Supply a file name", terminal)
  /\ status' = "EXIT_FAILURE"
  /\ pc' = "exited"
  /\ UNCHANGED <<configVars, line, voltages, batteries_size, batteries, source,
                 dataFile, outFile, screenVars, historyVars, parseVars>>

\* set_options when an option is unknown or is --help
SetOptionsFailure ==
  /\ pc = "start"
  /\ stdio' = Say("Usage", terminal)
  /\ status' = "EXIT_FAILURE"
  /\ pc' = "exited"
  /\ UNCHANGED <<configVars, line, voltages, batteries_size, batteries, source,
                 dataFile, outFile, screenVars, historyVars, parseVars>>

\* set_options
SetOptions ==
  /\ pc = "start"
  /\ \E h \in ScreenHeightOpts, ml \in MaxLineLengthOpts,
        fi \in FrameIntervalOpts, of \in OutputFileOpts :
       /\ SCREEN_HEIGHT' = h
       /\ MAX_LINE_LENGTH' = ml
       /\ FRAME_INTERVAL' = 1000 * fi
       /\ OUTPUT_FILE' = of
       /\ OFFSET_TOP' = h - 1
       /\ VOLTS_STEP' = [num |-> VOLTS_MAX - VOLTS_MIN,
                         den |-> (h - 1) - OFFSET_BOTTOM]
  /\ pc' = "init_screen"
  /\ UNCHANGED <<line, voltages, batteries_size, batteries, source, dataFile,
                 outFile, screenVars, stdio, status, historyVars, parseVars>>

\* init_screen(); print_left_panel(); refresh();
InitScreen ==
  /\ pc = "init_screen"
  /\ terminal' = "curses"
  /\ window' = print_left_panel(EmptyWindow)
  /\ display' = window'.cells
  /\ pc' = IF OUTPUT_FILE # NULL THEN "open_outFile" ELSE "open_dataFile"
  /\ UNCHANGED <<configVars, line, voltages, batteries_size, batteries, source,
                 dataFile, outFile, stdio, status, historyVars, parseVars>>

\* SIGINT: finish_screen_and_exit once init_screen has installed it, the
\* default action before
Interrupt ==
  /\ pc # "exited"
  /\ IF pc \in {"start", "init_screen"}
       THEN /\ status' = "SIGINT"
            /\ UNCHANGED <<terminal, stdio>>
       ELSE /\ terminal' = "shell"
            /\ stdio' = Say("Got signal", "shell")
            /\ status' = "EXIT_SUCCESS"
  /\ pc' = "exited"
  /\ UNCHANGED <<configVars, line, voltages, batteries_size, batteries, source,
                 dataFile, outFile, window, display, historyVars, parseVars>>

(***************************************************************************)
(* main: the files                                                         *)
(***************************************************************************)
\* outFile = open_file(OUTPUT_FILE, "a")
OpenOutFile ==
  /\ pc = "open_outFile"
  /\ \/ /\ outFile' = [outFile EXCEPT !.open = TRUE]
        /\ pc' = "open_dataFile"
        /\ UNCHANGED <<terminal, stdio, status>>
     \/ /\ FatalExit("Failed to open file")
        /\ UNCHANGED outFile
  /\ UNCHANGED <<configVars, line, voltages, batteries_size, batteries, source,
                 dataFile, window, display, historyVars, parseVars>>

\* FILE* dataFile = open_file(fileName, "r")
OpenDataFile ==
  /\ pc = "open_dataFile"
  /\ \/ /\ dataFile' = [open |-> TRUE, pos |-> 0, off |-> 0,
                        eof |-> FALSE, err |-> FALSE]
        /\ pc' = "fgets"
        /\ UNCHANGED <<terminal, stdio, status>>
     \/ /\ FatalExit("Failed to open file")
        /\ UNCHANGED dataFile
  /\ UNCHANGED <<configVars, line, voltages, batteries_size, batteries, source,
                 outFile, window, display, historyVars, parseVars>>

\* what is left of the source line the stream stands in
Remaining == SubSeq(source[dataFile.pos + 1], dataFile.off + 1,
                    Len(source[dataFile.pos + 1]))

\* fgets(line, sizeof(line), dataFile) returning line: at most
\* MAX_LINE_LENGTH - 1 characters, up to and including the line feed
FgetsLine ==
  /\ pc = "fgets"
  /\ dataFile.pos < Len(source)
  /\ LET n == IF Len(Remaining) < MAX_LINE_LENGTH - 1
                THEN Len(Remaining) ELSE MAX_LINE_LENGTH - 1
     IN  /\ line' = SubSeq(Remaining, 1, n)
         /\ dataFile' = IF n = Len(Remaining)
                          THEN [dataFile EXCEPT !.pos = @ + 1, !.off = 0]
                          ELSE [dataFile EXCEPT !.off = @ + n]
  /\ records' = Append(records, line')
  /\ steps' = <<>>
  /\ pc' = "is_valid_line"
  /\ UNCHANGED <<configVars, voltages, batteries_size, batteries, source,
                 outFile, screenVars, stdio, status, frames, readErrors,
                 parseVars>>

\* fgets returning NULL at the end of the file
FgetsEof ==
  /\ pc = "fgets"
  /\ dataFile.pos >= Len(source)
  /\ dataFile' = [dataFile EXCEPT !.eof = TRUE]
  /\ pc' = "after_loop"
  /\ UNCHANGED <<configVars, line, voltages, batteries_size, batteries, source,
                 outFile, screenVars, stdio, status, historyVars, parseVars>>

\* fgets returning NULL on a read error
FgetsError ==
  /\ pc = "fgets"
  /\ readErrors < MaxReadErrors
  /\ readErrors' = readErrors + 1
  /\ dataFile' = [dataFile EXCEPT !.err = TRUE]
  /\ pc' = "after_loop"
  /\ UNCHANGED <<configVars, line, voltages, batteries_size, batteries, source,
                 outFile, screenVars, stdio, status, records, frames, steps,
                 parseVars>>

\* int isEof = feof(dataFile); close_file(dataFile); if (isEof) break;
AfterLoop ==
  /\ pc = "after_loop"
  /\ LET isEof == dataFile.eof
     IN  pc' = IF isEof THEN "getch" ELSE "open_dataFile"
  /\ dataFile' = [dataFile EXCEPT !.open = FALSE]
  /\ UNCHANGED <<configVars, line, voltages, batteries_size, batteries, source,
                 outFile, screenVars, stdio, status, historyVars, parseVars>>

\* getch() returning a key
Getch ==
  /\ pc = "getch"
  /\ pc' = "finish"
  /\ UNCHANGED <<configVars, line, voltages, batteries_size, batteries, source,
                 dataFile, outFile, screenVars, stdio, status, historyVars,
                 parseVars>>

\* close_file(outFile); finish_screen(0); return EXIT_SUCCESS;
Finish ==
  /\ pc = "finish"
  /\ outFile' = [outFile EXCEPT !.open = FALSE]
  /\ terminal' = "shell"
  /\ status' = "EXIT_SUCCESS"
  /\ pc' = "exited"
  /\ UNCHANGED <<configVars, line, voltages, batteries_size, batteries, source,
                 dataFile, window, display, stdio, historyVars, parseVars>>

\* another process appends a record to the source file; the program meets
\* the file only in fgets, so the append is taken when the program is about
\* to read or has left the read loop
AppendSource ==
  /\ pc \in {"fgets", "after_loop", "getch"}
  /\ Len(source) < MaxFileLen
  /\ \E r \in RecordSet : source' = Append(source, r)
  /\ UNCHANGED <<configVars, pc, line, voltages, batteries_size, batteries,
                 dataFile, outFile, screenVars, stdio, status, historyVars,
                 parseVars>>

(***************************************************************************)
(* main: one record                                                        *)
(***************************************************************************)
\* if (is_valid_line(line)) ... else back to fgets
IsValidLine ==
  /\ pc = "is_valid_line"
  /\ LET r == is_valid_line(line)
     IN  /\ line' = r.line
         /\ pc' = IF r.valid
                    THEN (IF OUTPUT_FILE # NULL THEN "append_data_line"
                                                ELSE "read_voltages")
                    ELSE "fgets"
  /\ UNCHANGED <<configVars, voltages, batteries_size, batteries, source,
                 dataFile, outFile, screenVars, stdio, status, historyVars,
                 parseVars>>

\* what append_data_line adds to the file when both writes succeed
append_data_line(content, str) == (content \o str) \o <<"\n">>

\* append_data_line(outFile, line): both writes succeed, fputs fails, or
\* fputs succeeds and fputc fails
AppendDataLine ==
  /\ pc = "append_data_line"
  /\ \/ /\ outFile' = [outFile EXCEPT !.content = append_data_line(@, line)]
        /\ steps' = Append(steps, "mirror")
        /\ pc' = "read_voltages"
        /\ UNCHANGED <<terminal, stdio, status>>
     \/ /\ FatalExit("Failed to write to file")
        /\ UNCHANGED <<outFile, steps>>
     \/ /\ FatalExit("Failed to write to file")
        /\ outFile' = [outFile EXCEPT !.content = @ \o line]
        /\ UNCHANGED steps
  /\ UNCHANGED <<configVars, line, voltages, batteries_size, batteries, source,
                 dataFile, window, display, records, frames, readErrors,
                 parseVars>>

\* the values batteries_size is given when it is read without having been
\* assigned
IndeterminateSizes == {0, 1, VOLTAGES_LEN}

RECURSIVE ScanLoop(_, _)
\* for (i = 0; i < sizeof(voltages) / sizeof(int); i++)
\*   if (voltages[i] == -1) { batteries_size = i; break; }
\* VOLTAGES_LEN + 1 stands for: no assignment made
ScanLoop(v, i) ==
  IF i >= VOLTAGES_LEN THEN VOLTAGES_LEN + 1
  ELSE IF v[i + 1] = SENTINEL THEN i
  ELSE ScanLoop(v, i + 1)

\* voltages[] after the stores of read_voltages that land inside it
StoreVoltages(v, stored) ==
  [i \in 1..VOLTAGES_LEN |-> IF i <= Len(stored) THEN stored[i] ELSE v[i]]

\* line[] as a C string after strtok has put a terminator behind the first token
AfterStrtok(str) == SubSeq(str, 1, TokenEnd(str, SkipDelims(str, 1)) - 1)

\* read_voltages(line, voltages); the scan for the sentinel; the copy into
\* batteries[].  Reading *token when strtok found no token ends the process
\* with SIGSEGV.  Stores behind voltages[24] and the use of batteries_size
\* when the scan assigned nothing are undefined: the process is killed, or
\* goes on with whatever batteries_size holds.
ReadVoltages ==
  /\ pc = "read_voltages"
  /\ LET r == read_voltages(line)
         v == StoreVoltages(voltages, r.stored)
         found == ScanLoop(v, 0)
     IN  \/ /\ r.segv
            /\ status' = "SIGSEGV"
            /\ pc' = "exited"
            /\ UNCHANGED <<line, voltages, batteries_size, batteries, steps>>
         \/ /\ ~r.segv
            /\ Len(r.stored) <= VOLTAGES_LEN
            /\ voltages' = v
            /\ batteries_size' = found
            /\ batteries' = SubSeq(v, 1, found)
            /\ line' = AfterStrtok(line)
            /\ steps' = Append(steps, "extract")
            /\ pc' = "print_frame"
            /\ UNCHANGED status
         \/ /\ ~r.segv
            /\ Len(r.stored) > VOLTAGES_LEN
            /\ \/ /\ status' = "SIGSEGV"
                  /\ pc' = "exited"
                  /\ UNCHANGED <<line, voltages, batteries_size, batteries, steps>>
               \/ /\ voltages' = v
                  /\ \E size \in IndeterminateSizes :
                       /\ found <= VOLTAGES_LEN => size = found
                       /\ batteries_size' = size
                       /\ batteries' = SubSeq(v, 1, size)
                  /\ line' = AfterStrtok(line)
                  /\ steps' = Append(steps, "extract")
                  /\ pc' = "print_frame"
                  /\ UNCHANGED status
  /\ UNCHANGED <<configVars, source, dataFile, outFile, screenVars, stdio,
                 records, frames, readErrors, parseVars>>

\* print_bottom_panel(batteries_size); print_battery_bars(batteries_size, batteries);
PrintFrame ==
  /\ pc = "print_frame"
  /\ window' = print_battery_bars(print_bottom_panel(window, batteries_size),
                                  batteries_size, batteries)
  /\ batteries' = ClampedBatteries(batteries_size, batteries)
  /\ steps' = Append(steps, "render")
  /\ pc' = "refresh"
  /\ UNCHANGED <<configVars, line, voltages, batteries_size, source, dataFile,
                 outFile, display, terminal, stdio, status, records, frames,
                 readErrors, parseVars>>

\* refresh() followed by usleep(FRAME_INTERVAL) whatever FRAME_INTERVAL is
Refresh_AlwaysSleep ==
  /\ pc = "refresh"
  /\ display' = window.cells
  /\ frames' = Append(frames, [line |-> dataFile.pos,
                               raw |-> records[Len(records)],
                               readings |-> SubSeq(voltages, 1, batteries_size)])
  /\ steps' = Append(steps, "flush")
  /\ pc' = "usleep"
  /\ UNCHANGED <<configVars, line, voltages, batteries_size, batteries, source,
                 dataFile, outFile, window, terminal, stdio, status, records,
                 readErrors, parseVars>>

\* refresh(); if (FRAME_INTERVAL > 0) goes on to usleep
Refresh ==
  /\ pc = "refresh"
  /\ display' = window.cells
  /\ frames' = Append(frames, [line |-> dataFile.pos,
                               raw |-> records[Len(records)],
                               readings |-> SubSeq(voltages, 1, batteries_size)])
  /\ steps' = Append(steps, "flush")
  /\ pc' = IF FRAME_INTERVAL > 0 THEN "usleep" ELSE "fgets"
  /\ UNCHANGED <<configVars, line, voltages, batteries_size, batteries, source,
                 dataFile, outFile, window, terminal, stdio, status, records,
                 readErrors, parseVars>>

\* usleep(FRAME_INTERVAL)
Usleep ==
  /\ pc = "usleep"
  /\ steps' = Append(steps, "sleep")
  /\ pc' = "fgets"
  /\ UNCHANGED <<configVars, line, voltages, batteries_size, batteries, source,
                 dataFile, outFile, screenVars, stdio, status, records, frames,
                 readErrors, parseVars>>

Next ==
  \/ NoArguments
  \/ SetOptionsFailure
  \/ SetOptions
  \/ InitScreen
  \/ Interrupt
  \/ OpenOutFile
  \/ OpenDataFile
  \/ FgetsLine
  \/ FgetsEof
  \/ FgetsError
  \/ AfterLoop
  \/ Getch
  \/ Finish
  \/ AppendSource
  \/ IsValidLine
  \/ AppendDataLine
  \/ ReadVoltages
  \/ PrintFrame
  \/ Refresh
  \/ Usleep

Spec == Init /\ [][Next]_vars

\* the program on a source file of LongFiles
InitLong ==
  /\ InitProgram
  /\ pc = "start"
  /\ source \in LongFiles
  /\ p_pc = "off"
  /\ p_raw = <<>>
  /\ p_line = <<>>
  /\ p_valid = FALSE
  /\ p_result = [segv |-> FALSE, stored |-> <<>>]

SpecLong == InitLong /\ [][Next]_vars

(***************************************************************************)
(* The parser on one record: is_valid_line, then read_voltages             *)
(***************************************************************************)
\* the characters records are enumerated over
Alphabet == {"1", "B", "H", "X", ",", " ", "a"}

\* "X,B,10,20,H,Y,30"
R_example == <<"X", ",", "B", ",", "1", "0", ",", "2", "0", ",", "H", ",",
               "Y", ",", "3", "0">>
\* "B,4294967295,90": a reading that does not fit an int
R_wide == <<"B", ",", "4", "2", "9", "4", "9", "6", "7", "2", "9", "5", ",",
            "9", "0">>

ParseInputs ==
  SeqsUpTo(Alphabet, MaxLen)
    \cup {R_example, R_wide, R_many(VOLTAGES_LEN - 1), R_many(VOLTAGES_LEN)}
    \cup RecordSet

InitParse ==
  /\ InitProgram
  /\ pc = "off"
  /\ source = <<>>
  /\ p_pc = "raw"
  /\ p_raw \in ParseInputs
  /\ p_line = p_raw
  /\ p_valid = FALSE
  /\ p_result = [segv |-> FALSE, stored |-> <<>>]

mainVars == <<configVars, pc, line, voltages, batteries_size, batteries, source,
              dataFile, outFile, screenVars, stdio, status, historyVars>>

\* is_valid_line(p_line)
ParseValidate ==
  /\ p_pc = "raw"
  /\ LET r == is_valid_line(p_line)
     IN  /\ p_line' = r.line
         /\ p_valid' = r.valid
         /\ p_pc' = IF r.valid THEN "accepted" ELSE "rejected"
  /\ UNCHANGED <<mainVars, p_raw, p_result>>

\* read_voltages(p_line, ..) on an accepted record
ParseExtract ==
  /\ p_pc = "accepted"
  /\ p_result' = read_voltages(p_line)
  /\ p_pc' = "extracted"
  /\ UNCHANGED <<mainVars, p_raw, p_line, p_valid>>

\* is_valid_line(p_line) once more, on the buffer the first call returned
ParseRevalidate ==
  /\ p_pc \in {"accepted", "rejected"}
  /\ LET r == is_valid_line(p_line)
     IN  /\ p_line' = r.line
         /\ p_valid' = r.valid
         /\ p_pc' = IF r.valid THEN "accepted_again" ELSE "rejected_again"
  /\ UNCHANGED <<mainVars, p_raw, p_result>>

NextParse == ParseValidate \/ ParseExtract \/ ParseRevalidate

SpecParse == InitParse /\ [][NextParse]_vars

(***************************************************************************)
(* The renderer on arbitrary Reading Sets: set_options, init_screen and    *)
(* print_left_panel, then frame after frame as main draws them             *)
(***************************************************************************)
\* the most readings of a frame
MaxBatteries == 2

\* heights that give 1 and 7 rows above the baseline; VOLTS_STEP is 70.0
\* and 10.0, which a double holds exactly
DrawHeights == {5, 11}

\* a negative reading (atoi gives -2 for "4294967294"), readings half a
\* step above a row boundary (85 at step 10, 115 at step 70 and step 10),
\* a reading above VOLTS_MAX
ReadingValues == {-2, 85, 115, 200}
ReadingSets == SeqsUpTo(ReadingValues, MaxBatteries)

InitDraw ==
  /\ InitProgram
  /\ pc = "off"
  /\ source = <<>>
  /\ p_pc = "set_options"
  /\ p_raw = <<>>
  /\ p_line = <<>>
  /\ p_valid = FALSE
  /\ p_result = [segv |-> FALSE, stored |-> <<>>]

\* set_options: OFFSET_TOP = SCREEN_HEIGHT - 1; VOLTS_STEP = ...
DrawSetOptions ==
  /\ p_pc = "set_options"
  /\ \E h \in DrawHeights :
       /\ SCREEN_HEIGHT' = h
       /\ OFFSET_TOP' = h - 1
       /\ VOLTS_STEP' = [num |-> VOLTS_MAX - VOLTS_MIN,
                         den |-> (h - 1) - OFFSET_BOTTOM]
  /\ p_pc' = "init_screen"
  /\ UNCHANGED <<MAX_LINE_LENGTH, FRAME_INTERVAL, OUTPUT_FILE, pc, line,
                 voltages, batteries_size, batteries, source, dataFile, outFile,
                 screenVars, stdio, status, historyVars, p_raw, p_line, p_valid,
                 p_result>>

\* init_screen(); print_left_panel(); refresh();
DrawInitScreen ==
  /\ p_pc = "init_screen"
  /\ terminal' = "curses"
  /\ window' = print_left_panel(EmptyWindow)
  /\ display' = window'.cells
  /\ p_pc' = "read"
  /\ UNCHANGED <<configVars, pc, line, voltages, batteries_size, batteries,
                 source, dataFile, outFile, stdio, status, historyVars, p_raw,
                 p_line, p_valid, p_result>>

\* read_voltages has stored a Reading Set and the sentinel; the scan for the
\* sentinel; the copy into batteries[]
DrawReadings ==
  /\ p_pc = "read"
  /\ \E readings \in ReadingSets :
       LET v == StoreVoltages(voltages, Append(readings, SENTINEL))
           found == ScanLoop(v, 0)
       IN  /\ voltages' = v
           /\ batteries_size' = found
           /\ batteries' = SubSeq(v, 1, found)
  /\ p_pc' = "draw"
  /\ UNCHANGED <<configVars, pc, line, source, dataFile, outFile, screenVars,
                 stdio, status, historyVars, p_raw, p_line, p_valid, p_result>>

\* print_bottom_panel(batteries_size); print_battery_bars(batteries_size, batteries);
DrawFrame ==
  /\ p_pc = "draw"
  /\ window' = print_battery_bars(print_bottom_panel(window, batteries_size),
                                  batteries_size, batteries)
  /\ batteries' = ClampedBatteries(batteries_size, batteries)
  /\ p_pc' = "refresh"
  /\ UNCHANGED <<configVars, pc, line, voltages, batteries_size, source,
                 dataFile, outFile, display, terminal, stdio, status,
                 historyVars, p_raw, p_line, p_valid, p_result>>

\* refresh();
DrawRefresh ==
  /\ p_pc = "refresh"
  /\ display' = window.cells
  /\ p_pc' = "read"
  /\ UNCHANGED <<configVars, pc, line, voltages, batteries_size, batteries,
                 source, dataFile, outFile, window, terminal, stdio, status,
                 historyVars, p_raw, p_line, p_valid, p_result>>

NextDraw ==
  \/ DrawSetOptions
  \/ DrawInitScreen
  \/ DrawReadings
  \/ DrawFrame
  \/ DrawRefresh

SpecDraw == InitDraw /\ [][NextDraw]_vars

(***************************************************************************)
(* Definitions the properties are stated with.  They say what the         *)
(* specification says of a record, and do not use the operators above.     *)
(***************************************************************************)
SpecWhiteSpace == {" ", "\t", "\r", "\n"}
SpecAllowed ==
  {"0", "1", "2", "3", "4", "5", "6", "7", "8", "9", ","} \cup
  {"A", "B", "C", "D", "E", "F", "G", "H", "I", "J", "K", "L", "M",
   "N", "O", "P", "Q", "R", "S", "T", "U", "V", "W", "X", "Y", "Z"}

\* the positions of raw that hold no white space
Kept(raw) == {i \in 1..Len(raw) : raw[i] \notin SpecWhiteSpace}

\* how many of the first i characters of raw are no white space
Rank(raw, i) == Cardinality({j \in 1..i : raw[j] \notin SpecWhiteSpace})

\* raw with its white space removed: the k-th character is the k-th
\* character of raw that is no white space
Stripped(raw) ==
  [k \in 1..Rank(raw, Len(raw)) |->
     raw[CHOOSE i \in 1..Len(raw) :
           raw[i] \notin SpecWhiteSpace /\ Rank(raw, i) = k]]

\* validate_and_normalize accepts raw
Accepted(raw) ==
  /\ Kept(raw) # {}
  /\ \A i \in Kept(raw) : raw[i] \in SpecAllowed

\* the numbers of the source lines that hold an accepted record, in order
AcceptedLines(file) ==
  SelectSeq([i \in 1..Len(file) |-> i], LAMBDA i : Accepted(file[i]))

IsPrefix(s, t) == Len(s) <= Len(t) /\ \A i \in 1..Len(s) : s[i] = t[i]

FrameLines == [k \in 1..Len(frames) |-> frames[k].line]

\* the last record fgets returned
LastRecord == records[Len(records)]

(***************************************************************************)
(* C1: in the read loop, when reading stops at end-of-file the source is   *)
(* closed and reopened and reading goes on; when it stops on a read error  *)
(* that is not end-of-file the loop terminates and the source is not       *)
(* reopened.                                                               *)
(***************************************************************************)
C1_EofReopens ==
  [][(pc = "after_loop" /\ pc' \notin {"after_loop", "exited"})
       => /\ dataFile.eof => pc' = "open_dataFile"
          /\ ~dataFile.eof => pc' # "open_dataFile"]_vars

(***************************************************************************)
(* C2: the frames rendered over the process lifetime are the accepted      *)
(* records of the source in source order, each once: no record is          *)
(* rendered again after a reopen, and a record appended after end-of-file  *)
(* was reached is rendered too, so the process has not left the read loop  *)
(* (without a read error) while an accepted record is unrendered.          *)
(***************************************************************************)
C2_AllRecordsOnce ==
  /\ IsPrefix(FrameLines, AcceptedLines(source))
  /\ (pc \in {"getch", "finish"} /\ readErrors = 0 /\ frames # <<>>)
       => FrameLines = AcceptedLines(source)

C4_ValidationRule ==
  p_pc \in {"accepted", "rejected"} =>
    /\ p_valid <=> (Stripped(p_raw) # <<>>
                    /\ \A k \in 1..Len(Stripped(p_raw)) :
                         Stripped(p_raw)[k] \in SpecAllowed)
    /\ p_valid => p_line = Stripped(p_raw)
    /\ (\E i \in 1..Len(p_raw) : p_raw[i] \notin SpecAllowed \cup SpecWhiteSpace)
         => ~p_valid

\* a record with white space in it has been accepted and normalized
C4_Witness ==
  /\ p_pc = "accepted"
  /\ Len(p_line) < Len(p_raw)
  /\ Len(p_line) > 1

(***************************************************************************)
(* C5: a record that fails validation is skipped with no effect: nothing   *)
(* is appended to the mirror file, no cell is painted, there is no flush   *)
(* and no delay, the record text is left unmodified, and the loop goes on  *)
(* to read the next record without exiting or reporting an error.          *)
(***************************************************************************)
C5_InvalidRecordSkipped ==
  [][(pc = "is_valid_line" /\ ~Accepted(line) /\ status' = status)
       => /\ pc' = "fgets"
          /\ UNCHANGED <<outFile, window, display, frames, steps, line, stdio,
                         terminal, voltages, batteries_size, batteries>>]_vars

\* a record with a lowercase letter has been skipped and the loop is back
\* at fgets
C5_Witness ==
  /\ pc = "fgets"
  /\ records # <<>>
  /\ LastRecord = R_lower
  /\ line = R_lower
  /\ steps = <<>>

(***************************************************************************)
(* What the specification says extract_readings yields for a normalized    *)
(* record.                                                                 *)
(***************************************************************************)
\* the positions where a token of s starts: a character that is no comma,
\* at the start of s or behind a comma
TokenStarts(s) ==
  {i \in 1..Len(s) : s[i] # "," /\ (i = 1 \/ s[i - 1] = ",")}

\* the token that starts at position b: the characters up to the next comma
TokenAt(s, b) ==
  SubSeq(s, b, CHOOSE e \in b..Len(s) :
                 /\ \A i \in b..e : s[i] # ","
                 /\ (e = Len(s) \/ s[e + 1] = ","))

\* the token at b lies in a battery-data zone: it does not start with H,
\* and some token before it starts with B and has no token starting with H
\* between itself and b
InZone(s, b) ==
  /\ s[b] # "H"
  /\ \E z \in TokenStarts(s) :
       /\ z < b
       /\ s[z] = "B"
       /\ \A h \in TokenStarts(s) : (z < h /\ h < b) => s[h] # "H"

ZoneStarts(s) == {b \in TokenStarts(s) : InZone(s, b)}

\* the leading digits of a token, without leading zeros ("0" when the
\* token has no digit in front or only zeros)
LeadingInteger(tok) ==
  LET n == CHOOSE m \in 0..Len(tok) :
             /\ \A i \in 1..m : tok[i] \in DigitSet
             /\ (m = Len(tok) \/ tok[m + 1] \notin DigitSet)
      z == CHOOSE m \in 0..n :
             /\ \A i \in 1..m : tok[i] = "0"
             /\ (m = n \/ tok[m + 1] # "0")
  IN  IF z = n THEN <<"0">> ELSE SubSeq(tok, z + 1, n)

\* the tokens of the zones of s, in source order
ZoneTokens(s) ==
  [k \in 1..Cardinality(ZoneStarts(s)) |->
     TokenAt(s, CHOOSE b \in ZoneStarts(s) :
                  Cardinality({c \in ZoneStarts(s) : c < b}) = k - 1)]

\* readings is the Reading Set of s: one reading per token of a zone, in
\* order, each the leading integer of its token
IsReadingSetOf(readings, s) ==
  /\ Len(readings) = Len(ZoneTokens(s))
  /\ \A k \in 1..Len(readings) :
       /\ readings[k] >= 0
       /\ Decimal(readings[k]) = LeadingInteger(ZoneTokens(s)[k])

\* what read_voltages stored before the sentinel
StoredReadings(result) == SubSeq(result.stored, 1, Len(result.stored) - 1)

(***************************************************************************)
(* C6: for every normalized record read_voltages yields, in source order,  *)
(* one reading per token lying after a token that starts with B and before *)
(* the next token that starts with H; tokens before the first zone start   *)
(* and tokens that start with H are not extracted; each extracted token    *)
(* contributes its leading integer, 0 when it has none.                    *)
(***************************************************************************)
C6_ZoneReadings ==
  p_pc = "extracted" =>
    /\ ~p_result.segv
    /\ IsReadingSetOf(StoredReadings(p_result), p_line)

\* the same on the records for which read_voltages returns and whose
\* readings fit an int: the zone rule itself holds of the code
ZoneRuleWhenReturned ==
  (p_pc = "extracted" /\ ~p_result.segv /\ p_raw # R_wide) =>
    IsReadingSetOf(StoredReadings(p_result), p_line)

\* "X,B,10,20,H,Y,30" yields [10, 20]
ExampleReadings ==
  (p_pc = "extracted" /\ p_raw = R_example) =>
    p_result = [segv |-> FALSE, stored |-> <<10, 20, SENTINEL>>]

(***************************************************************************)
(* C7: a record accepted by validation that has no token starting with B   *)
(* yields an empty Reading Set and is processed as a zero-battery frame:   *)
(* no error state is reached and the loop goes on to the next record.      *)
(***************************************************************************)
C7_NoZoneIsEmptyFrame ==
  (records # <<>> /\ Accepted(LastRecord)
     /\ \A b \in TokenStarts(Stripped(LastRecord)) : Stripped(LastRecord)[b] # "B")
    => /\ status # "SIGSEGV"
       /\ pc \in {"print_frame", "refresh", "usleep"} => batteries_size = 0

(***************************************************************************)
(* C8: accepted records are processed in source order, one frame per       *)
(* accepted record, and for each accepted record the steps happen in this  *)
(* order before the next record is read: mirror append when a mirror file  *)
(* is configured, extraction, rendering, flush, and a suspension if and    *)
(* only if the inter-frame delay is nonzero.                               *)
(***************************************************************************)
StepsOfRecord ==
  ((IF OUTPUT_FILE # NULL THEN <<"mirror">> ELSE <<>>)
     \o <<"extract", "render", "flush">>)
    \o (IF FRAME_INTERVAL > 0 THEN <<"sleep">> ELSE <<>>)

FrameRecords == [k \in 1..Len(frames) |-> frames[k].raw]

C8_StepsInOrder ==
  /\ IsPrefix(steps, StepsOfRecord)
  /\ (pc = "fgets" /\ records # <<>> /\ Accepted(LastRecord))
       => steps = StepsOfRecord
  /\ pc = "fgets" => FrameRecords = SelectSeq(records, Accepted)
  /\ IsPrefix(FrameRecords, SelectSeq(records, Accepted))

\* two accepted records have been through all five steps, the second after
\* the first, and the loop is back at fgets
C8_Witness ==
  /\ pc = "fgets"
  /\ OUTPUT_FILE # NULL
  /\ FRAME_INTERVAL > 0
  /\ FrameRecords = <<R_nozone, R_zone>>
  /\ steps = <<"mirror", "extract", "render", "flush", "sleep">>

(***************************************************************************)
(* C9: on every exit after the display has been initialized the terminal   *)
(* is restored before the process exits: on an interrupt (then with        *)
(* success status), on the normal end-of-input path, and on a fatal I/O    *)
(* error, where the terminal is restored first, the error is reported next *)
(* and the process exits with failure status.                              *)
(***************************************************************************)
LastSaid == stdio[Len(stdio)]

C9_TeardownBeforeExit ==
  (pc = "exited" /\ window # EmptyWindow
     /\ status \in {"EXIT_SUCCESS", "EXIT_FAILURE"})
    => /\ terminal = "shell"
       /\ status = "EXIT_FAILURE"
            => /\ stdio # <<>>
               /\ LastSaid.msg \in {"Failed to open file", "Failed to write to file"}
               /\ LastSaid.mode = "shell"
       /\ (stdio # <<>> /\ LastSaid.msg = "Got signal")
            => status = "EXIT_SUCCESS" /\ LastSaid.mode = "shell"

\* the process has exited on a failed write to the mirror file, with the
\* terminal restored
C9_Witness ==
  /\ pc = "exited"
  /\ window # EmptyWindow
  /\ status = "EXIT_FAILURE"
  /\ stdio # <<>>
  /\ LastSaid.msg = "Failed to write to file"
  /\ terminal = "shell"

(***************************************************************************)
(* C10: a configuration with offset_top (screen_height - 1) not greater    *)
(* than offset_bottom (3) is rejected at startup: no run initializes the   *)
(* display or computes volts_step with offset_top <= offset_bottom.        *)
(***************************************************************************)
C10_RowsPositive ==
  (pc = "init_screen" \/ window # EmptyWindow)
    => /\ OFFSET_TOP > OFFSET_BOTTOM
       /\ VOLTS_STEP.den > 0

(***************************************************************************)
(* What the specification says of the bar panel: the rows above the        *)
(* baseline, the clamp, the rounding, and where a cell of a bar lies.      *)
(***************************************************************************)
\* the highest level of the panel: offset_top - offset_bottom
Rows == OFFSET_TOP - OFFSET_BOTTOM

\* v clamped into [volts_min, volts_max]
ClampedInto(v) ==
  IF v < VOLTS_MIN THEN VOLTS_MIN ELSE IF v > VOLTS_MAX THEN VOLTS_MAX ELSE v

\* (c - volts_min) / volts_step rounded half away from zero, for c in
\* [volts_min, volts_max]: the level h with h - 1/2 <= quotient < h + 1/2,
\* where volts_step = (volts_max - volts_min) / Rows
RoundedLevels(c) ==
  CHOOSE h \in 0..Rows :
    /\ (VOLTS_MAX - VOLTS_MIN) * (2 * h - 1) <= 2 * (c - VOLTS_MIN) * Rows
    /\ 2 * (c - VOLTS_MIN) * Rows < (VOLTS_MAX - VOLTS_MIN) * (2 * h + 1)

BarHeightFor(v) == RoundedLevels(ClampedInto(v))

\* the cell of battery index i, sub-column k, at level lv above the baseline
BarCell(lv, i, k) ==
  <<SCREEN_HEIGHT - OFFSET_BOTTOM - lv,
    1 + OFFSET_LEFT + (SPACE_BETWEEN_BARS + BAR_WIDTH) * i + k>>

FilledGlyph == [ch |-> " ", attrs |-> {"REVERSE", "WHITE"}]
BlankGlyph == [ch |-> " ", attrs |-> {}]

\* the column of battery index i shows a bar of height h and nothing else
ColumnShows(cells, i, h) ==
  \A lv \in 0..Rows, k \in 0..(BAR_WIDTH - 1) :
    /\ BarCell(lv, i, k) \in DOMAIN cells
    /\ cells[BarCell(lv, i, k)] = IF lv <= h THEN FilledGlyph ELSE BlankGlyph

\* the levels of battery index i that are filled across the bar width
FilledLevels(cells, i) ==
  {lv \in 0..Rows : \A k \in 0..(BAR_WIDTH - 1) :
     /\ BarCell(lv, i, k) \in DOMAIN cells
     /\ cells[BarCell(lv, i, k)] = FilledGlyph}

(***************************************************************************)
(* C11: after print_battery_bars has drawn a frame, for every battery      *)
(* index of the frame and every sub-column, the levels 0..height (height   *)
(* of the clamped reading) are filled and the levels above it up to        *)
(* offset_top - offset_bottom are blank, the two loops covering each level *)
(* once; so the window, and the display after the refresh, show in the     *)
(* column of each battery of the latest frame its latest reading only.     *)
(***************************************************************************)
C11_BarShowsLatestReading ==
  /\ p_pc = "refresh" =>
       \A i \in 1..batteries_size :
         /\ ColumnShows(window.cells, i - 1, RoundedLevels(batteries[i]))
         /\ Current(batteries[i]) \in 1..(Rows + 1)
  /\ (p_pc = "read" /\ batteries_size > 0) =>
       \A i \in 1..batteries_size :
         ColumnShows(display, i - 1, RoundedLevels(batteries[i]))

\* a bar of full height is on display for the first battery and the frame
\* just drawn, not yet flushed, has a reading of height 1 for it
C11_Witness ==
  /\ p_pc = "refresh"
  /\ SCREEN_HEIGHT = 11
  /\ batteries_size > 0
  /\ voltages[1] = 85
  /\ BarCell(Rows, 0, 0) \in DOMAIN display
  /\ display[BarCell(Rows, 0, 0)] = FilledGlyph
  /\ window.cells[BarCell(1, 0, 0)] = FilledGlyph
  /\ window.cells[BarCell(2, 0, 0)] = BlankGlyph
  /\ window.cells[BarCell(Rows, 0, BAR_WIDTH - 1)] = BlankGlyph

(***************************************************************************)
(* C12: for every reading v of a frame the filled levels of its bar are    *)
(* 0..height, the height being (v clamped into [volts_min, volts_max]      *)
(* minus volts_min) / volts_step rounded half away from zero: half a step  *)
(* above a row boundary rounds up, a reading at or below volts_min gives   *)
(* level 0 alone, a reading at or above volts_max gives all the levels.    *)
(***************************************************************************)
C12_ClampThenRoundHalfAway ==
  p_pc = "refresh" =>
    \A i \in 1..batteries_size :
      FilledLevels(window.cells, i - 1) = 0..BarHeightFor(voltages[i])

\* the same for the readings that are not negative
HeightRuleForNonNegative ==
  p_pc = "refresh" =>
    \A i \in 1..batteries_size :
      voltages[i] >= 0 =>
        FilledLevels(window.cells, i - 1) = 0..BarHeightFor(voltages[i])

(***************************************************************************)
(* C13: under one configuration, of two readings v1 <= v2 the bar drawn    *)
(* for v1 has at most as many filled rows as the bar drawn for v2.         *)
(***************************************************************************)
C13_HeightMonotonic ==
  p_pc = "refresh" =>
    \A i, j \in 1..batteries_size :
      voltages[i] <= voltages[j] =>
        Cardinality(FilledLevels(window.cells, i - 1))
          <= Cardinality(FilledLevels(window.cells, j - 1))

\* the same for the readings that are not negative
MonotonicForNonNegative ==
  p_pc = "refresh" =>
    \A i, j \in 1..batteries_size :
      (0 <= voltages[i] /\ voltages[i] <= voltages[j]) =>
        Cardinality(FilledLevels(window.cells, i - 1))
          <= Cardinality(FilledLevels(window.cells, j - 1))

(***************************************************************************)
(* C14: bar_x(i, k) = 1 + left_offset + (bar_spacing + bar_width) * i + k  *)
(* (17 for index 1, sub-column 0) and bar_y(levels) = screen_height -      *)
(* bottom_offset - levels, also for the levels -1 and -2: the battery      *)
(* index legend is written one row below the baseline and the cursor       *)
(* rests two rows below it.                                                *)
(***************************************************************************)
C14_GeometryFormulas ==
  p_pc # "set_options" =>
    /\ \A lv \in (-2)..Rows :
         bar_y(lv) = SCREEN_HEIGHT - OFFSET_BOTTOM - lv
    /\ \A i \in 0..(VOLTAGES_LEN - 1), k \in 0..BAR_WIDTH :
         bar_x(i, k) = 1 + OFFSET_LEFT + (SPACE_BETWEEN_BARS + BAR_WIDTH) * i + k
    /\ bar_x(1, 0) = 17
    /\ p_pc = "refresh" =>
         /\ window.cur = <<SCREEN_HEIGHT - OFFSET_BOTTOM + 2, 0>>
         /\ \A i \in 0..(batteries_size - 1) :
              <<SCREEN_HEIGHT - OFFSET_BOTTOM + 1, 11 + 6 * i>>
                 \in DOMAIN window.cells

\* a frame of two batteries has been drawn: the legend of the second is in
\* column 17 of the row below the baseline, the cursor in the row below it
C14_Witness ==
  /\ p_pc = "refresh"
  /\ batteries_size = 2
  /\ SCREEN_HEIGHT = 11
  /\ window.cells[<<9, 17>>].ch = " "
  /\ window.cells[<<9, 18>>].ch = "2"
  /\ window.cur = <<10, 0>>

(***************************************************************************)
(* C15: validation is idempotent: is_valid_line applied to the normalized  *)
(* output of an accepted record accepts it again and leaves it unchanged;  *)
(* applied again to a rejected record it rejects it again.                 *)
(***************************************************************************)
C15_ValidationIdempotent ==
  [][(p_pc \in {"accepted", "rejected"} /\ p_pc' \notin {p_pc, "extracted"})
       => /\ p_valid' = p_valid
          /\ p_line' = p_line
          /\ p_pc' = IF p_pc = "accepted" THEN "accepted_again"
                     ELSE "rejected_again"]_vars

\* a record with white space in it has been accepted, normalized, and
\* accepted again
C15_Witness ==
  /\ p_pc = "accepted_again"
  /\ p_valid
  /\ Len(p_line) < Len(p_raw)
  /\ Len(p_line) > 1

\* the tokens of the zones of s that do not start with B, in source order
ZoneTokensWithoutB(s) ==
  LET starts == {b \in ZoneStarts(s) : s[b] # "B"}
  IN  [k \in 1..Cardinality(starts) |->
         TokenAt(s, CHOOSE b \in starts :
                      Cardinality({c \in starts : c < b}) = k - 1)]

(***************************************************************************)
(* C16: for every normalized record a token that starts with B is never    *)
(* itself extracted as a reading, whether the zone is closed or already    *)
(* open when the token is reached; it only opens the zone for the tokens   *)
(* after it: the readings are those of the zone tokens not starting with B.*)
(***************************************************************************)
C16_BTokenNeverExtracted ==
  (p_pc = "extracted" /\ ~p_result.segv) =>
    LET readings == StoredReadings(p_result)
        tokens == ZoneTokensWithoutB(p_line)
    IN  /\ Len(readings) = Len(tokens)
        /\ \A k \in 1..Len(readings) :
             readings[k] >= 0 => Decimal(readings[k]) = LeadingInteger(tokens[k])

\* the same for the records in which no token starting with B comes after
\* an earlier one without a token starting with H in between
BTokenOpensZone ==
  (p_pc = "extracted" /\ ~p_result.segv
     /\ \A b \in ZoneStarts(p_line) : p_line[b] # "B") =>
    /\ Len(StoredReadings(p_result)) = Len(ZoneTokensWithoutB(p_line))
    /\ IsReadingSetOf(StoredReadings(p_result), p_line)
           \/ \E k \in 1..Len(StoredReadings(p_result)) :
                StoredReadings(p_result)[k] < 0

(***************************************************************************)
(* C17: for every accepted record, however many tokens its zones hold, the *)
(* Reading Set handed to the renderer has as many readings as tokens were  *)
(* extracted for the record; the length is where extraction stopped, not a *)
(* limit of the buffer, and extraction writes no reading and no sentinel   *)
(* outside voltages[].                                                     *)
(***************************************************************************)
C17_LengthIsTokensExtracted ==
  /\ pc = "read_voltages" =>
       (~read_voltages(line).segv
          => Len(read_voltages(line).stored) <= VOLTAGES_LEN)
  /\ pc = "print_frame" =>
       /\ batteries_size = Len(ZoneTokens(Stripped(LastRecord)))
       /\ Len(batteries) = batteries_size
  /\ status = "SIGSEGV" => TokenStarts(Stripped(LastRecord)) = {}

\* the same for the records whose readings and sentinel fit voltages[]:
\* the longest such record, and the short records
LengthWhenStoresFit ==
  pc = "print_frame" =>
    /\ Len(batteries) = batteries_size
    /\ LastRecord = R_many(VOLTAGES_LEN - 1) => batteries_size = VOLTAGES_LEN - 1
    /\ Len(LastRecord) < VOLTAGES_LEN
         => batteries_size = Len(ZoneTokens(Stripped(LastRecord)))

\* the row of the battery index legend, one below the baseline
LegendRow == SCREEN_HEIGHT - OFFSET_BOTTOM + 1

\* the columns of the bar of battery index i
BarColumns(i) ==
  {1 + OFFSET_LEFT + (SPACE_BETWEEN_BARS + BAR_WIDTH) * i + k :
     k \in 0..(BAR_WIDTH - 1)}

(***************************************************************************)
(* C18: under a configuration with offset_top > offset_bottom every cell   *)
(* print_battery_bars paints, for any reading and any battery index, lies  *)
(* in the bar panel: its row is between 1 and screen_height -              *)
(* bottom_offset, never a legend row, row 0 or a negative row, and its     *)
(* column is a column of a bar.  Right of the left panel the window holds  *)
(* bar glyphs in the panel only, and the legend row holds the legend only. *)
(***************************************************************************)
C18_BarsInsidePanel ==
  (p_pc \in {"draw", "refresh", "read"} /\ OFFSET_TOP > OFFSET_BOTTOM) =>
    \A c \in DOMAIN window.cells :
      /\ c[1] >= 0
      /\ c[2] > OFFSET_LEFT =>
           \/ /\ c[1] \in 1..(SCREEN_HEIGHT - OFFSET_BOTTOM)
              /\ \E i \in 0..(VOLTAGES_LEN - 1) : c[2] \in BarColumns(i)
              /\ window.cells[c] \in {FilledGlyph, BlankGlyph}
           \/ /\ c[1] = LegendRow
              /\ window.cells[c].attrs = {"CYAN"}

\* a frame with a reading above volts_max has been drawn: its bar reaches
\* the top row of the panel and row 0 above it is untouched
C18_Witness ==
  /\ p_pc = "refresh"
  /\ batteries_size > 0
  /\ voltages[1] = 200
  /\ SCREEN_HEIGHT = 5
  /\ window.cells[<<1, 11>>] = FilledGlyph
  /\ window.cells[<<2, 13>>] = FilledGlyph
  /\ <<0, 11>> \notin DOMAIN window.cells

\* the cells a frame of k readings may paint: the bar columns and the index
\* labels of the battery indices 0..k-1
FrameCells(k) ==
  {c \in (1..(SCREEN_HEIGHT - OFFSET_BOTTOM)) \X (0..(OFFSET_LEFT + 6 * k)) :
     \E i \in 0..(k - 1) : c[2] \in BarColumns(i)}
    \cup {<<LegendRow, 1 + OFFSET_LEFT + (SPACE_BETWEEN_BARS + BAR_WIDTH) * i + d>> :
            i \in 0..(k - 1), d \in 0..1}

(***************************************************************************)
(* C19: drawing a frame with k readings paints only the bar columns and    *)
(* the index labels of the battery indices 0..k-1 and leaves every other   *)
(* cell of the window unchanged, and the refresh leaves every other cell   *)
(* of the display unchanged: when a frame with fewer readings follows one  *)
(* with more, the bars and labels of the batteries beyond the new count    *)
(* stay on screen as the earlier frame drew them.                          *)
(***************************************************************************)
C19_OnlyFrameCellsPainted ==
  [][/\ (p_pc = "draw" /\ p_pc' = "refresh") =>
          /\ DOMAIN window.cells \subseteq DOMAIN window'.cells
          /\ \A c \in DOMAIN window'.cells :
               c \notin FrameCells(batteries_size) =>
                 /\ c \in DOMAIN window.cells
                 /\ window'.cells[c] = window.cells[c]
     /\ (p_pc = "refresh" /\ p_pc' = "read") =>
          /\ DOMAIN display \subseteq DOMAIN display'
          /\ \A c \in DOMAIN display' :
               c \notin FrameCells(batteries_size) =>
                 /\ c \in DOMAIN display
                 /\ display'[c] = display[c]]_vars

\* a frame of one reading has been drawn and flushed after a frame of two:
\* the bar and the label of the second battery are still on display
C19_Witness ==
  /\ p_pc = "read"
  /\ batteries_size = 1
  /\ SCREEN_HEIGHT = 11
  /\ BarCell(0, 1, 0) \in DOMAIN display
  /\ display[BarCell(0, 1, 0)] = FilledGlyph
  /\ display[<<LegendRow, 18>>].ch = "2"
  /\ display[BarCell(0, 0, 0)] = FilledGlyph

====
